---- MODULE Spec2Model ----
(***************************************************************************)
(* Incremental ingestion pipeline of the naive RAG chatbot:                *)
(*   src/db_populate.py            main, add_to_chroma, calculate_chunk_ids *)
(*   src/get_embedding_function.py get_embedding_function                   *)
(*                                                                         *)
(* Python strings are TLA+ strings built with \o, so that the identifier   *)
(* format "source:page:index" is computed, not assumed injective.          *)
(* Environment-variable values are sequences of one-character strings so   *)
(* that .lower() can be computed character by character.                   *)
(***************************************************************************)
EXTENDS Integers, Sequences, FiniteSets, Bags, TLC

(* ------------------------------------------------------------------ *)
(* Bounds of the model                                                 *)
(* ------------------------------------------------------------------ *)
\* longest chunk list handed to calculate_chunk_ids in SpecIds
MaxIdChunks == 4
\* longest chunk list produced by split_documents in Spec
MaxChunks == 5
\* batch size of add_to_chroma, scaled down from the source's 100
BATCH_SIZE == 2
\* most failed submissions (exceptions from add_documents) followed in one run
MaxFailures == 2
\* most runs of main() followed against the same persisted Store
MaxRuns == 2

\* seconds slept after a transient rate-limit error
RETRY_DELAY == 20

(* ------------------------------------------------------------------ *)
(* String formatting                                                   *)
(* ------------------------------------------------------------------ *)
Digits == <<"0", "1", "2", "3", "4", "5", "6", "7", "8", "9">>

\* str(n) for a non-negative integer, as an f-string formats it
RECURSIVE str(_)
str(n) == IF n < 10 THEN Digits[n + 1]
          ELSE str(n \div 10) \o Digits[(n % 10) + 1]

\* f"{source}:{page}"
page_id_of(source, page) == source \o ":" \o str(page)

\* f"{current_page_id}:{current_chunk_index}"
chunk_id_of(current_page_id, current_chunk_index) ==
    current_page_id \o ":" \o str(current_chunk_index)

(* ------------------------------------------------------------------ *)
(* calculate_chunk_ids                                                 *)
(* ------------------------------------------------------------------ *)
\* A chunk is [page_content, metadata]; metadata is a record with source and
\* page, and with id once calculate_chunk_ids has run over it.
\* last_page_id is <<>> for None and <<s>> for the string s.

\* mutant: the index is never incremented
next_index_never_incremented(current_page_id, last_page_id, current_chunk_index) ==
    0

\* mutant: the index is never reset at a page boundary
next_index_never_reset(current_page_id, last_page_id, current_chunk_index) ==
    IF last_page_id = <<>> THEN 0 ELSE current_chunk_index + 1

\* the if/else of the loop body: the index the current chunk gets
next_index(current_page_id, last_page_id, current_chunk_index) ==
    IF <<current_page_id>> = last_page_id
    THEN current_chunk_index + 1
    ELSE 0

\* mutant: an id already on the chunk is kept (setdefault instead of assignment)
set_id_keeps_existing(chunk, chunk_id) ==
    [page_content |-> chunk.page_content,
     metadata |-> [source |-> chunk.metadata.source,
                   page |-> chunk.metadata.page,
                   id |-> IF "id" \in DOMAIN chunk.metadata
                          THEN chunk.metadata.id ELSE chunk_id]]

\* chunk.metadata["id"] = chunk_id
set_id(chunk, chunk_id) ==
    [page_content |-> chunk.page_content,
     metadata |-> [source |-> chunk.metadata.source,
                   page |-> chunk.metadata.page,
                   id |-> chunk_id]]

\* the loop's state after its first n iterations
RECURSIVE ids_loop(_, _)
ids_loop(chunks, n) ==
    IF n = 0
    THEN [out |-> <<>>, last_page_id |-> <<>>, current_chunk_index |-> 0]
    ELSE LET prev == ids_loop(chunks, n - 1)
             chunk == chunks[n]
             current_page_id == page_id_of(chunk.metadata.source, chunk.metadata.page)
             idx == next_index(current_page_id, prev.last_page_id,
                               prev.current_chunk_index)
         IN [out |-> Append(prev.out, set_id(chunk, chunk_id_of(current_page_id, idx))),
             last_page_id |-> <<current_page_id>>,
             current_chunk_index |-> idx]

calculate_chunk_ids(chunks) == ids_loop(chunks, Len(chunks)).out

(* ------------------------------------------------------------------ *)
(* get_embedding_function                                              *)
(* ------------------------------------------------------------------ *)
UpperCase == <<"A", "B", "C", "D", "E", "F", "G", "H", "I", "J", "K", "L", "M",
               "N", "O", "P", "Q", "R", "S", "T", "U", "V", "W", "X", "Y", "Z">>
LowerCase == <<"a", "b", "c", "d", "e", "f", "g", "h", "i", "j", "k", "l", "m",
               "n", "o", "p", "q", "r", "s", "t", "u", "v", "w", "x", "y", "z">>

\* str.lower() of one character
lower_char(c) ==
    IF \E k \in 1..26 : UpperCase[k] = c
    THEN LowerCase[CHOOSE k \in 1..26 : UpperCase[k] = c]
    ELSE c

\* str.lower() of a string held as a sequence of characters
lower(s) == [k \in 1..Len(s) |-> lower_char(s[k])]

\* the tuple ("1", "true", "yes") of the membership test
TruthyFlags == {<<"1">>, <<"t", "r", "u", "e">>, <<"y", "e", "s">>}

\* mutant: the flag is compared without lowering it
use_local_case_sensitive(env) == env.USE_LOCAL_EMBEDDINGS \in TruthyFlags

\* use_local = os.environ.get("USE_LOCAL_EMBEDDINGS", "").lower() in (...)
\* (an unset variable is the empty sequence, the default of .get)
use_local_of(env) == lower(env.USE_LOCAL_EMBEDDINGS) \in TruthyFlags

\* the guard of the Remote attempt; an unset or empty OPENAI_API_KEY is falsy
tries_remote(env, be) ==
    /\ ~use_local_of(env)
    /\ be.OpenAIEmbeddings
    /\ env.OPENAI_API_KEY # <<>>

\* What one call does: the provider returned ("None" when it raises), the
\* exception raised ("" when it returns) and whether a warning was emitted.
\* be.remote_constructs: OpenAIEmbeddings(model=...) returns instead of raising;
\* be.local_constructs: _make_sentence_transformer_wrapper() returns.
get_embedding_function(env, be) ==
    IF tries_remote(env, be) /\ be.remote_constructs
    THEN [ret |-> "Remote", raised |-> "", warned |-> FALSE]
    ELSE IF be.local_constructs
         THEN [ret |-> "Local", raised |-> "",
               warned |-> tries_remote(env, be)]
         ELSE [ret |-> "None", raised |-> "RuntimeError",
               warned |-> tries_remote(env, be)]

(* ------------------------------------------------------------------ *)
(* add_to_chroma: the pure parts                                       *)
(* ------------------------------------------------------------------ *)
Min(a, b) == IF a < b THEN a ELSE b

Range(f) == {f[k] : k \in DOMAIN f}

\* mutant: the membership test of the partition is inverted
keeps_chunk_inverted(chunk, existing) == chunk.metadata.id \in existing

\* if chunk.metadata["id"] not in existing_ids
keeps_chunk(chunk, existing) == chunk.metadata.id \notin existing

\* new_chunks after the partition loop has seen the first n chunks
RECURSIVE partition_loop(_, _, _)
partition_loop(chunks_with_ids, existing, n) ==
    IF n = 0 THEN <<>>
    ELSE LET prev == partition_loop(chunks_with_ids, existing, n - 1)
         IN IF keeps_chunk(chunks_with_ids[n], existing)
            THEN Append(prev, chunks_with_ids[n])
            ELSE prev

partition(chunks_with_ids, existing) ==
    partition_loop(chunks_with_ids, existing, Len(chunks_with_ids))

\* mutant: the slice ends one chunk early
batch_at_short(chunk_list, offset) ==
    SubSeq(chunk_list, offset + 1, Min(offset + BATCH_SIZE, Len(chunk_list)) - 1)

\* batch = new_chunks[i:i+BATCH_SIZE], offset counted from 0
batch_at(chunk_list, offset) ==
    SubSeq(chunk_list, offset + 1, Min(offset + BATCH_SIZE, Len(chunk_list)))

\* mutant: every id of the batch is taken from its first chunk
ids_of_first(batch) == [k \in 1..Len(batch) |-> batch[1].metadata.id]

\* batch_ids = [chunk.metadata["id"] for chunk in batch]
ids_of(batch) == [k \in 1..Len(batch) |-> batch[k].metadata.id]

\* mutant: the loop steps by one chunk instead of one batch
next_offset_by_one(offset) == offset + 1

\* the step of range(0, len(new_chunks), BATCH_SIZE)
next_offset(offset) == offset + BATCH_SIZE

\* The persisted collection is a bag of ids.
\* mutant: the Store keeps only the first id of a call
upsert_first_only(collection, ids) ==
    IF ids = <<>> THEN collection
    ELSE [id \in DOMAIN collection \cup {ids[1]} |->
             IF id = ids[1] THEN 1 ELSE collection[id]]

\* mutant: the call replaces the content of the Store by its batch
upsert_replaces(collection, ids) == SetToBag(Range(ids))

\* db.add_documents(batch, ids=batch_ids): upsert by id
upsert(collection, ids) ==
    [id \in DOMAIN collection \cup Range(ids) |->
        IF id \in Range(ids) THEN 1 ELSE collection[id]]

\* set(db.get(include=[])["ids"])
stored_ids(collection) == BagToSet(collection)

\* mutant: the layers are tried from the innermost outwards
persist_db_innermost_first(layers) ==
    IF "collection" \in layers THEN "collection"
    ELSE IF "client" \in layers THEN "client"
    ELSE IF "db" \in layers THEN "db"
    ELSE "none"

\* _persist_db: the layer whose persist() is called, "none" when no layer
\* of the installed Store exposes one
persist_db(layers) ==
    IF "db" \in layers THEN "db"
    ELSE IF "client" \in layers THEN "client"
    ELSE IF "collection" \in layers THEN "collection"
    ELSE "none"

\* the classification of the except clause: a RateLimitError whose text names
\* the exhausted quota
QuotaMessages == {"insufficient_quota", "You exceeded your current quota"}

\* the exceptions db.add_documents is followed raising: the class, and which
\* of the quota phrases str(e) contains
Errors ==
    [type : {"RateLimitError", "APIError"},
     mentions : {{}, {"insufficient_quota"}, {"You exceeded your current quota"}}]

\* mutant: the quota phrases are looked for in every exception
classify_any_type(e) ==
    IF e.mentions \cap QuotaMessages # {} THEN "quota"
    ELSE IF e.type = "RateLimitError" THEN "rate_limit" ELSE "error"

\* except RateLimitError / the quota test on str(e) / anything else propagates
classify(e) ==
    IF e.type = "RateLimitError"
    THEN IF e.mentions \cap QuotaMessages # {} THEN "quota" ELSE "rate_limit"
    ELSE "error"

(* ------------------------------------------------------------------ *)
(* State                                                               *)
(* ------------------------------------------------------------------ *)
VARIABLES
    pc,             \* where the process is: "main", "submit", or how it ended
    run,            \* number of the process run against the Store
    shell_environ,  \* the environment the operator starts processes with
    environ,        \* os.environ of the running process
    backend,        \* what is installed and whether it constructs
    persist_layers, \* the layers of the installed Store exposing persist()
    data,           \* what load_documents + split_documents yield
    store,          \* the collection persisted under CHROMA_PATH (bag of ids)
    chunks,         \* chunks_with_ids
    provider,       \* the embedding function of the open db handle
    existing_ids,   \* existing_ids
    snapshot,       \* the id set read at line 57 (existing_ids before any refresh)
    new_chunks,     \* new_chunks
    i,              \* the loop variable of the batch loop
    calls           \* the calls made so far in this run, in order

vars == <<pc, run, shell_environ, environ, backend, persist_layers,
          data, store, chunks, provider, existing_ids, snapshot, new_chunks, i,
          calls>>

\* no exception
NoError == [type |-> "", mentions |-> {}]

\* one entry of calls: a call other than add_documents
Call(op, ids, ef, res, arg) ==
    [op |-> op, docs |-> <<>>, ids |-> ids, ef |-> ef, res |-> res, arg |-> arg,
     err |-> NoError]

\* one entry of calls: db.add_documents(batch, ids=batch_ids) made with
\* embedding function ef, and how it ended (res is "ok" or the handling of err)
AddCall(batch, batch_ids, ef, res, e) ==
    [op |-> "add_documents", docs |-> batch, ids |-> batch_ids, ef |-> ef,
     res |-> res, arg |-> "", err |-> e]

\* mutant: the batch loop moves on after a rate-limit wait
retry_offset_skips(offset) == offset + BATCH_SIZE

\* while True: after the sleep (or the switch) the same batch is tried again
retry_offset(offset) == offset

\* mutant: the force-local flag is not set before the new provider is built
forced_environ_unset(env) == env

\* os.environ["USE_LOCAL_EMBEDDINGS"] = "1"
forced_environ(env) == [env EXCEPT !.USE_LOCAL_EMBEDDINGS = <<"1">>]

\* mutant: the chunks still to add are partitioned again by the refreshed set
plan_after_switch_repartitioned(plan, refreshed) == partition(plan, refreshed)

\* lines 137-142: existing_ids is read again, new_chunks and the for loop over
\* it are left as they are
plan_after_switch(plan, refreshed) == plan

\* mutant: a failed fallback is swallowed
fallback_failed_ignored(new_embedding) == FALSE

\* except Exception as fallback_err
fallback_failed(new_embedding) == new_embedding.raised # ""

Terminal == {"success", "config_error", "error_raised", "fatal_exit"}

\* add_documents calls of this run that raised
Failures == {k \in DOMAIN calls : calls[k].op = "add_documents" /\ calls[k].res # "ok"}

(* ------------------------------------------------------------------ *)
(* Inputs                                                              *)
(* ------------------------------------------------------------------ *)
Sources == {"a", "a:1"}
Pages == {0, 1}
Texts == {"x", "y"}

RawChunks(sources, pages, texts) ==
    [page_content : texts, metadata : [source : sources, page : pages]]

SeqsUpTo(S, n) == UNION {[1..m -> S] : m \in 0..n}

\* the chunk list with the position of each chunk appended to its text
Numbered(list) ==
    [k \in DOMAIN list |->
        [page_content |-> list[k].page_content \o str(k),
         metadata |-> list[k].metadata]]

FlagValues ==
    {<<>>, <<"0">>, <<"1">>, <<"n", "o">>, <<"o", "n">>,
     <<"t", "r", "u", "e">>, <<"T", "r", "u", "e">>, <<"T", "R", "U", "E">>,
     <<"y", "e", "s">>, <<"Y", "E", "S">>, <<"f", "a", "l", "s", "e">>}
KeyValues == {<<>>, <<"s", "k">>}

Backends ==
    [OpenAIEmbeddings : BOOLEAN, remote_constructs : BOOLEAN,
     local_constructs : BOOLEAN]

NoRun ==
    /\ run = 1
    /\ persist_layers = {} /\ store = EmptyBag
    /\ chunks = <<>> /\ existing_ids = {} /\ snapshot = {}
    /\ new_chunks = <<>> /\ i = 0 /\ calls = <<>>

\* the Store layers exposing persist() in the runs of Spec: none on the Store
\* object itself, one on its client and one on its collection
PersistConfigs == {{"client", "collection"}}
SeedIdSets == {{}, {"a:1:0"}, {"a:0:0", "a:0:1"}}

(* ------------------------------------------------------------------ *)
(* Spec: runs of main() against one persisted Store                    *)
(* ------------------------------------------------------------------ *)
\* langchain_openai, and with it the openai package imported at line 67, is
\* installed and a key is configured; the flag and the local model vary.
Init ==
    /\ pc = "main" /\ run = 1
    /\ shell_environ \in [USE_LOCAL_EMBEDDINGS : {<<>>, <<"1">>},
                          OPENAI_API_KEY : {<<"s", "k">>}]
    /\ environ = shell_environ
    /\ backend \in {b \in Backends : b.OpenAIEmbeddings /\ b.remote_constructs}
    /\ persist_layers \in PersistConfigs
    /\ data \in {Numbered(d) : d \in SeqsUpTo(RawChunks({"a"}, Pages, {"t"}), MaxChunks)}
    /\ store \in {SetToBag(S) : S \in SeedIdSets}
    /\ chunks = <<>> /\ provider = "None"
    /\ existing_ids = {} /\ snapshot = {}
    /\ new_chunks = <<>> /\ i = 0 /\ calls = <<>>

\* mutant: the batch loop is entered whether or not there are new chunks
has_new_chunks_always(fresh) == TRUE

\* if len(new_chunks):
has_new_chunks(fresh) == Len(fresh) > 0

\* mutant: --reset leaves the persisted Store in place
clear_database_keeps(collection) == collection

\* clear_database(): shutil.rmtree(CHROMA_PATH)
clear_database(collection) == EmptyBag

\* main(): --reset, load and split, and add_to_chroma up to the batch loop
Main ==
    /\ pc = "main"
    /\ \E reset \in BOOLEAN :
         LET kept == IF reset THEN clear_database(store) ELSE store
             ef == get_embedding_function(environ, backend)
             with_ids == calculate_chunk_ids(data)
             existing == stored_ids(kept)
             fresh == partition(with_ids, existing)
             head == (IF reset THEN <<Call("rmtree", <<>>, "", "", "")>> ELSE <<>>)
                     \o <<Call("get_embedding_function", <<>>, ef.ret, ef.raised,
                               IF use_local_of(environ) THEN "use_local" ELSE "")>>
         IN /\ store' = kept
            /\ IF ef.raised # ""
               THEN /\ pc' = "config_error"
                    /\ calls' = head
                    /\ UNCHANGED <<chunks, provider, existing_ids, snapshot,
                                   new_chunks, i>>
               ELSE /\ provider' = ef.ret
                    /\ chunks' = with_ids
                    /\ existing_ids' = existing
                    /\ snapshot' = existing
                    /\ new_chunks' = fresh
                    /\ i' = 0
                    /\ calls' = head \o <<Call("Chroma", <<>>, ef.ret, "", ""),
                                          Call("get", <<>>, ef.ret, "", "")>>
                    /\ pc' = IF has_new_chunks(fresh) THEN "submit" ELSE "success"
    /\ UNCHANGED <<run, shell_environ, environ, backend,
                   persist_layers, data>>

\* db.add_documents returns: persist, then the next batch or the end of the loop
AddSucceeds ==
    /\ pc = "submit"
    /\ LET batch == batch_at(new_chunks, i)
           batch_ids == ids_of(batch)
           layer == persist_db(persist_layers)
       IN /\ store' = upsert(store, batch_ids)
          /\ calls' = calls
                \o <<AddCall(batch, batch_ids, provider, "ok", NoError)>>
                \o (IF layer = "none" THEN <<>>
                    ELSE <<Call("persist", <<>>, provider, "", layer)>>)
          /\ i' = next_offset(i)
          /\ pc' = IF next_offset(i) < Len(new_chunks) THEN "submit" ELSE "success"
    /\ UNCHANGED <<run, shell_environ, environ, backend, persist_layers,
                   data, chunks, provider, existing_ids, snapshot, new_chunks>>

\* db.add_documents raises a transient RateLimitError: sleep, same batch again
AddRateLimited ==
    /\ pc = "submit"
    /\ Cardinality(Failures) < MaxFailures
    /\ \E e \in Errors :
         /\ classify(e) = "rate_limit"
         /\ calls' = calls
               \o <<AddCall(batch_at(new_chunks, i), ids_of(batch_at(new_chunks, i)),
                            provider, "rate_limit", e),
                    Call("sleep", <<>>, "", "", str(RETRY_DELAY))>>
    /\ i' = retry_offset(i)
    /\ UNCHANGED <<pc, run, shell_environ, environ, backend,
                   persist_layers, data, store, chunks, provider, existing_ids,
                   snapshot, new_chunks>>

\* db.add_documents raises a quota RateLimitError: switch to local embeddings
\* and try the same batch again, or sys.exit(1)
AddQuotaExhausted ==
    /\ pc = "submit"
    /\ Cardinality(Failures) < MaxFailures
    /\ \E e \in Errors :
         /\ classify(e) = "quota"
         /\ LET forced == forced_environ(environ)
                new_embedding == get_embedding_function(forced, backend)
                failed == <<AddCall(batch_at(new_chunks, i),
                                    ids_of(batch_at(new_chunks, i)),
                                    provider, "quota", e),
                            Call("get_embedding_function", <<>>, new_embedding.ret,
                                 new_embedding.raised,
                                 IF use_local_of(forced) THEN "use_local" ELSE "")>>
            IN /\ environ' = forced
               /\ IF fallback_failed(new_embedding)
                  THEN /\ pc' = "fatal_exit"
                       /\ calls' = calls \o failed
                       /\ UNCHANGED <<provider, existing_ids, new_chunks, i>>
                  ELSE /\ pc' = "submit"
                       /\ provider' = new_embedding.ret
                       /\ existing_ids' = stored_ids(store)
                       /\ new_chunks' = plan_after_switch(new_chunks, stored_ids(store))
                       /\ calls' = calls \o failed
                             \o <<Call("Chroma", <<>>, new_embedding.ret, "", ""),
                                  Call("get", <<>>, new_embedding.ret, "", "")>>
                       /\ i' = retry_offset(i)
    /\ UNCHANGED <<run, shell_environ, backend, persist_layers, data,
                   store, chunks, snapshot>>

\* db.add_documents raises anything else: the exception leaves add_to_chroma
AddOtherError ==
    /\ pc = "submit"
    /\ Cardinality(Failures) < MaxFailures
    /\ \E e \in Errors :
         /\ classify(e) = "error"
         /\ calls' = calls
               \o <<AddCall(batch_at(new_chunks, i), ids_of(batch_at(new_chunks, i)),
                            provider, "error", e)>>
    /\ pc' = "error_raised"
    /\ UNCHANGED <<run, shell_environ, environ, backend, persist_layers,
                   data, store, chunks, provider, existing_ids, snapshot,
                   new_chunks, i>>

\* the operator starts the command again on the same data directory, after a
\* run that ended successfully (a Store left by an aborted run is among the
\* Stores a first run starts from)
NextRun ==
    /\ pc = "success"
    /\ run < MaxRuns
    /\ pc' = "main" /\ run' = run + 1
    /\ environ' = shell_environ
    /\ chunks' = <<>> /\ provider' = "None"
    /\ existing_ids' = {} /\ snapshot' = {}
    /\ new_chunks' = <<>> /\ i' = 0 /\ calls' = <<>>
    /\ UNCHANGED <<shell_environ, backend, persist_layers, data, store>>

Next ==
    \/ Main
    \/ AddSucceeds
    \/ AddRateLimited
    \/ AddQuotaExhausted
    \/ AddOtherError
    \/ NextRun

Spec == Init /\ [][Next]_vars

(* ------------------------------------------------------------------ *)
(* SpecFair: runs of main() against a backend that recovers            *)
(* ------------------------------------------------------------------ *)
\* one page of one source, an empty Store and the flag unset; the local model
\* may or may not be constructible
InitFair ==
    /\ pc = "main" /\ run = 1
    /\ shell_environ = [USE_LOCAL_EMBEDDINGS |-> <<>>, OPENAI_API_KEY |-> <<"s", "k">>]
    /\ environ = shell_environ
    /\ backend \in {b \in Backends : b.OpenAIEmbeddings /\ b.remote_constructs}
    /\ persist_layers \in PersistConfigs
    /\ data \in {Numbered(d) : d \in SeqsUpTo(RawChunks({"a"}, {0}, {"t"}), MaxChunks)}
    /\ store = EmptyBag
    /\ chunks = <<>> /\ provider = "None"
    /\ existing_ids = {} /\ snapshot = {}
    /\ new_chunks = <<>> /\ i = 0 /\ calls = <<>>

\* A submission that can return eventually does: the process keeps running in
\* its batch loop and the backend does not raise for ever.
SpecFair == InitFair /\ [][Next]_vars /\ WF_vars(AddSucceeds)

(* ------------------------------------------------------------------ *)
(* SpecIds: calculate_chunk_ids applied to one chunk list              *)
(* ------------------------------------------------------------------ *)
DefaultEnviron == [USE_LOCAL_EMBEDDINGS |-> <<>>, OPENAI_API_KEY |-> <<>>]
DefaultBackend ==
    [OpenAIEmbeddings |-> FALSE, remote_constructs |-> FALSE,
     local_constructs |-> TRUE]

InitIds ==
    /\ pc = "ids_call"
    /\ data \in SeqsUpTo(RawChunks(Sources, Pages, Texts), MaxIdChunks)
    /\ shell_environ = DefaultEnviron /\ environ = DefaultEnviron
    /\ backend = DefaultBackend /\ provider = "None"
    /\ NoRun

CalculateChunkIds ==
    /\ pc = "ids_call"
    /\ chunks' = calculate_chunk_ids(data)
    /\ pc' = "ids_returned"
    /\ UNCHANGED <<run, shell_environ, environ, backend, persist_layers, data,
                   store, provider, existing_ids, snapshot, new_chunks, i, calls>>

Reverse(list) == [k \in DOMAIN list |-> list[Len(list) + 1 - k]]

\* The same chunks in the same order as handed to a later call: every text
\* replaced by text, and each chunk carrying the id an earlier assignment left
\* on it (the one just made, or one made when the list was in reverse order).
Reingested(list, text, reversed) ==
    LET stale == IF reversed THEN Reverse(ids_of(list)) ELSE ids_of(list)
    IN [k \in DOMAIN list |->
           [page_content |-> text,
            metadata |-> [source |-> list[k].metadata.source,
                          page |-> list[k].metadata.page,
                          id |-> stale[k]]]]

\* calculate_chunk_ids called again on the same ordered chunks; chunks keeps
\* the result of the first call, calls holds the ids the second call assigned
CalculateChunkIdsAgain ==
    /\ pc = "ids_returned"
    /\ \E text \in Texts, reversed \in BOOLEAN :
         calls' = <<Call("calculate_chunk_ids",
                         ids_of(calculate_chunk_ids(Reingested(chunks, text, reversed))),
                         "", "", IF reversed THEN "reversed" ELSE "")>>
    /\ pc' = "ids_again"
    /\ UNCHANGED <<run, shell_environ, environ, backend, persist_layers, data,
                   store, chunks, provider, existing_ids, snapshot, new_chunks, i>>

NextIds ==
    \/ CalculateChunkIds
    \/ CalculateChunkIdsAgain

SpecIds == InitIds /\ [][NextIds]_vars

(* ------------------------------------------------------------------ *)
(* SpecProvider: one call of get_embedding_function                    *)
(* ------------------------------------------------------------------ *)
InitProvider ==
    /\ pc = "provider_call"
    /\ environ \in [USE_LOCAL_EMBEDDINGS : FlagValues, OPENAI_API_KEY : KeyValues]
    /\ shell_environ = environ
    /\ backend \in Backends
    /\ data = <<>> /\ provider = "None"
    /\ NoRun

GetEmbeddingFunction ==
    /\ pc = "provider_call"
    /\ LET r == get_embedding_function(environ, backend)
       IN /\ provider' = r.ret
          /\ pc' = IF r.raised = "" THEN "provider_returned" ELSE "provider_raised"
          /\ calls' = <<Call("get_embedding_function", <<>>, r.ret, r.raised,
                             IF r.warned THEN "warned" ELSE "")>>
    /\ UNCHANGED <<run, shell_environ, environ, backend, persist_layers, data,
                   store, chunks, existing_ids, snapshot, new_chunks, i>>

NextProvider == GetEmbeddingFunction

SpecProvider == InitProvider /\ [][NextProvider]_vars

(* ------------------------------------------------------------------ *)
(* SpecPersist: runs of main() against every shape of installed Store  *)
(* ------------------------------------------------------------------ *)
\* the layers of the Store object that may expose persist(): the Chroma
\* object, its client and its collection
StoreLayers == {"db", "client", "collection"}

\* one page of one source, an empty Store, the flag unset; which layers expose
\* persist() and whether the local model can be built vary
InitPersist ==
    /\ pc = "main" /\ run = 1
    /\ shell_environ = [USE_LOCAL_EMBEDDINGS |-> <<>>, OPENAI_API_KEY |-> <<"s", "k">>]
    /\ environ = shell_environ
    /\ backend \in {b \in Backends : b.OpenAIEmbeddings /\ b.remote_constructs}
    /\ persist_layers \in SUBSET StoreLayers
    /\ data \in {Numbered(d) : d \in SeqsUpTo(RawChunks({"a"}, {0}, {"t"}), MaxChunks)}
    /\ store = EmptyBag
    /\ chunks = <<>> /\ provider = "None"
    /\ existing_ids = {} /\ snapshot = {}
    /\ new_chunks = <<>> /\ i = 0 /\ calls = <<>>

SpecPersist == InitPersist /\ [][Next]_vars

(* ================================================================== *)
(* Properties                                                          *)
(* ================================================================== *)
\* two chunks come from the same page of the same source
same_page(c, d) ==
    /\ c.metadata.source = d.metadata.source
    /\ c.metadata.page = d.metadata.page

\* the chunks of every source:page are next to each other in the list
Contiguous(list) ==
    \A j, k \in DOMAIN list :
        (j < k /\ same_page(list[j], list[k]))
            => \A m \in j..k : same_page(list[j], list[m])

\* the first position of the maximal run of same-page chunks that ends at k
RunStart(list, k) ==
    CHOOSE j \in 1..k :
        /\ \A m \in j..k : same_page(list[m], list[k])
        /\ j = 1 \/ ~same_page(list[j - 1], list[k])

\* C9 (identifier uniqueness): when all chunks of the same source:page are
\* contiguous in the input, the identifiers calculate_chunk_ids assigns are
\* pairwise distinct.
C9_UniqueIds ==
    (pc = "ids_returned" /\ Contiguous(data))
        => \A j, k \in DOMAIN chunks :
               j # k => chunks[j].metadata.id # chunks[k].metadata.id

\* C9 witness: four chunks over two sources whose page ids are prefixes of one
\* another, two chunks each, contiguous, have been given identifiers.
C9_Witness ==
    /\ pc = "ids_returned"
    /\ Len(chunks) = 4
    /\ Contiguous(data)
    /\ data[1].metadata = [source |-> "a", page |-> 1]
    /\ data[2].metadata = [source |-> "a", page |-> 1]
    /\ data[3].metadata = [source |-> "a:1", page |-> 0]
    /\ data[4].metadata = [source |-> "a:1", page |-> 0]
    /\ chunks[2].metadata.id = "a:1:1"
    /\ chunks[3].metadata.id = "a:1:0:0"

\* C10 (index assignment): a chunk gets index 0 exactly when it is the first
\* chunk or its source:page differs from the preceding chunk's, and otherwise
\* the preceding index plus 1: the index of chunk k is its distance from the
\* start of its maximal run of same-page chunks, and the id is
\* source:page:index; nothing else of the chunk changes.
C10_IndexAssignment ==
    pc = "ids_returned"
        => /\ Len(chunks) = Len(data)
           /\ \A k \in DOMAIN chunks :
                /\ chunks[k].page_content = data[k].page_content
                /\ chunks[k].metadata.source = data[k].metadata.source
                /\ chunks[k].metadata.page = data[k].metadata.page
                /\ chunks[k].metadata.id =
                       data[k].metadata.source \o ":" \o str(data[k].metadata.page)
                           \o ":" \o str(k - RunStart(data, k))

\* C10 witness: a run of three chunks of one page followed by a chunk of
\* another page: indices 0, 1, 2 and then 0 again.
C10_Witness ==
    /\ pc = "ids_returned"
    /\ Len(chunks) = 4
    /\ same_page(data[1], data[2]) /\ same_page(data[2], data[3])
    /\ ~same_page(data[3], data[4])
    /\ chunks[1].metadata.id = "a:1:0:0"
    /\ chunks[3].metadata.id = "a:1:0:2"
    /\ chunks[4].metadata.id = "a:1:0"

\* the values of USE_LOCAL_EMBEDDINGS that set the force-local flag
ForceLocalValues ==
    {<<"1">>, <<"t", "r", "u", "e">>, <<"T", "r", "u", "e">>,
     <<"T", "R", "U", "E">>, <<"y", "e", "s">>, <<"Y", "E", "S">>}

\* C8 (provider selection): Local when the force-local flag is set; otherwise
\* Remote when the integration is available, a credential is configured and
\* Remote constructs; otherwise Local; when Local is to be used and does not
\* construct, an error and no provider. Remote never under the force-local flag.
C8_ProviderSelection ==
    pc \in {"provider_returned", "provider_raised"}
        => LET flag_set == environ.USE_LOCAL_EMBEDDINGS \in ForceLocalValues
               remote_usable == /\ backend.OpenAIEmbeddings
                                /\ environ.OPENAI_API_KEY # <<>>
                                /\ backend.remote_constructs
               wants_local == flag_set \/ ~remote_usable
           IN /\ flag_set => provider # "Remote"
              /\ (~wants_local) => (pc = "provider_returned" /\ provider = "Remote")
              /\ (wants_local /\ backend.local_constructs)
                    => (pc = "provider_returned" /\ provider = "Local")
              /\ (wants_local /\ ~backend.local_constructs)
                    => (pc = "provider_raised" /\ provider = "None"
                        /\ calls[1].res = "RuntimeError")

\* C8 witness: the flag is set in upper case while Remote is fully usable,
\* and the call has returned Local.
C8_Witness ==
    /\ pc = "provider_returned"
    /\ environ.USE_LOCAL_EMBEDDINGS = <<"T", "R", "U", "E">>
    /\ environ.OPENAI_API_KEY # <<>>
    /\ backend.OpenAIEmbeddings /\ backend.remote_constructs
    /\ provider = "Local"

(* ------------------------------------------------------------------ *)
(* Properties of the reconciliation run (Spec)                         *)
(* ------------------------------------------------------------------ *)
\* add_to_chroma has read the Store and partitioned the chunks
Partitioned == pc \in {"submit", "success", "error_raised", "fatal_exit"}

\* positions of calls holding add_documents calls, and the n-th of them
AddPositions == {k \in DOMAIN calls : calls[k].op = "add_documents"}
NthOf(S, n) == CHOOSE k \in S : Cardinality({j \in S : j <= k}) = n

\* ids committed by the add_documents calls before position k
CommittedBefore(k) ==
    UNION {Range(calls[j].ids) : j \in {j \in AddPositions : j < k /\ calls[j].res = "ok"}}

\* the run was started with --reset
WasReset == calls # <<>> /\ calls[1].op = "rmtree"

\* C2 (partition correctness): new_chunks is exactly the subsequence of the
\* input chunks whose id is not in the existing-id set read from the Store, in
\* input order; each input chunk is kept or skipped, never both, and no kept
\* chunk has an existing id.
C2_Partition ==
    Partitioned
        => LET kept == {k \in DOMAIN chunks : chunks[k].metadata.id \notin snapshot}
           IN /\ Len(new_chunks) = Cardinality(kept)
              /\ \A n \in DOMAIN new_chunks : new_chunks[n] = chunks[NthOf(kept, n)]
              /\ \A n \in DOMAIN new_chunks : new_chunks[n].metadata.id \notin snapshot
              /\ \A k \in DOMAIN chunks :
                    (chunks[k].metadata.id \in snapshot)
                        <=> ~(\E n \in DOMAIN new_chunks : new_chunks[n] = chunks[k])

\* C2 witness: of five chunks the first two are already stored and skipped,
\* the other three are kept in input order.
C2_Witness ==
    /\ pc = "submit"
    /\ Len(chunks) = 5
    /\ snapshot = {"a:0:0", "a:0:1"}
    /\ chunks[1].metadata.id = "a:0:0" /\ chunks[2].metadata.id = "a:0:1"
    /\ new_chunks = SubSeq(chunks, 3, 5)
    /\ new_chunks[1].metadata.id = "a:0:2"
    /\ new_chunks[2].metadata.id = "a:1:0"

\* C7 (batch sizing): in a run without a failed submission the submissions are
\* the consecutive slices of new_chunks of BATCH_SIZE chunks, the last one
\* holding the rest; a finished run of n > 0 new chunks made ceil(n/BATCH_SIZE)
\* of them and their concatenation is new_chunks.
C7_BatchSizing ==
    (Partitioned /\ Failures = {})
        => LET n == Len(new_chunks)
               total == (n + BATCH_SIZE - 1) \div BATCH_SIZE
               made == Cardinality(AddPositions)
               doc(m) == calls[NthOf(AddPositions, m)].docs
           IN /\ made <= total
              /\ (pc = "success") => made = total
              /\ \A m \in 1..made :
                    /\ m < total => Len(doc(m)) = BATCH_SIZE
                    /\ m = total => Len(doc(m)) = n - BATCH_SIZE * (total - 1)
                    /\ \A x \in 1..Len(doc(m)) :
                          doc(m)[x] = new_chunks[BATCH_SIZE * (m - 1) + x]

\* C7 witness: five new chunks were submitted without a failure in three
\* batches of 2, 2 and 1 chunks.
C7_Witness ==
    /\ pc = "success"
    /\ Failures = {}
    /\ Len(new_chunks) = 5
    /\ Cardinality(AddPositions) = 3
    /\ Len(calls[NthOf(AddPositions, 1)].docs) = 2
    /\ Len(calls[NthOf(AddPositions, 2)].docs) = 2
    /\ Len(calls[NthOf(AddPositions, 3)].docs) = 1

\* C1 (idempotent re-ingestion): a run over the same chunks that follows a
\* successful run, without --reset, finds every chunk id in the Store, makes
\* no add_documents call and leaves the Store's id set as it found it.
C1_IdempotentRerun ==
    (run > 1 /\ pc # "main" /\ ~WasReset)
        => /\ pc = "success"
           /\ \A k \in DOMAIN chunks : chunks[k].metadata.id \in existing_ids
           /\ Len(chunks) = Len(data)
           /\ new_chunks = <<>>
           /\ AddPositions = {}
           /\ stored_ids(store) = snapshot

\* C1 witness: the second run over five chunks, one of which no initial Store
\* holds, has ended without resetting and without adding.
C1_Witness ==
    /\ run = 2
    /\ pc = "success"
    /\ ~WasReset
    /\ Len(chunks) = 5
    /\ \E k \in DOMAIN chunks : chunks[k].metadata.id = "a:0:2"
    /\ \E k \in DOMAIN chunks : chunks[k].metadata.id = "a:1:1"

\* the kinds of failure of a submission, as the claims name them
IsQuotaError(e) ==
    /\ e.type = "RateLimitError"
    /\ \/ "insufficient_quota" \in e.mentions
       \/ "You exceeded your current quota" \in e.mentions
IsTransientError(e) == e.type = "RateLimitError" /\ e.mentions = {}
IsUnclassifiedError(e) == e.type \notin {"", "RateLimitError"}

\* C3 (fallback transition): after a submission failed with a quota error while
\* a Local provider can be constructed, the calls that follow are, in order,
\* get_embedding_function in forced-local mode returning Local, the re-opening
\* of the Store with it and the re-reading of its ids; the next submission is
\* of the same chunks and ids with the Local provider, and once it succeeded
\* the Store holds each id of the batch exactly once.
C3_Fallback ==
    \A k \in AddPositions :
        (IsQuotaError(calls[k].err) /\ backend.local_constructs)
            => /\ calls[k].res = "quota"
               /\ Len(calls) >= k + 3
               /\ calls[k + 1].op = "get_embedding_function"
               /\ calls[k + 1].arg = "use_local"
               /\ calls[k + 1].ef = "Local"
               /\ calls[k + 2].op = "Chroma" /\ calls[k + 2].ef = "Local"
               /\ calls[k + 3].op = "get"
               /\ Len(calls) = k + 3
                     => /\ pc = "submit"
                        /\ provider = "Local"
                        /\ existing_ids = stored_ids(store)
                        /\ batch_at(new_chunks, i) = calls[k].docs
               /\ Len(calls) > k + 3
                     => /\ calls[k + 4].op = "add_documents"
                        /\ calls[k + 4].docs = calls[k].docs
                        /\ calls[k + 4].ids = calls[k].ids
                        /\ calls[k + 4].ef = "Local"
                        /\ calls[k + 4].res = "ok"
                              => \A id \in Range(calls[k].ids) : CopiesIn(id, store) = 1

\* C3 witness: the first submission, made with the Remote provider, failed
\* with a quota error and the same batch was then added with the Local one.
C3_Witness ==
    \E k \in AddPositions :
        /\ k = NthOf(AddPositions, 1)
        /\ IsQuotaError(calls[k].err)
        /\ calls[k].ef = "Remote"
        /\ Len(calls[k].docs) = BATCH_SIZE
        /\ Len(calls) > k + 3
        /\ calls[k + 4].op = "add_documents"
        /\ calls[k + 4].res = "ok"
        /\ calls[k + 4].ef = "Local"

\* what holds after a transient rate-limit failure
C4_AfterRateLimit ==
    \A k \in AddPositions :
        IsTransientError(calls[k].err)
            => /\ calls[k].res = "rate_limit"
               /\ Len(calls) >= k + 1
               /\ calls[k + 1].op = "sleep"
               /\ calls[k + 1].arg = str(RETRY_DELAY)
               /\ Len(calls) = k + 1
                     => /\ pc = "submit"
                        /\ provider = calls[k].ef
                        /\ batch_at(new_chunks, i) = calls[k].docs
               /\ Len(calls) > k + 1
                     => /\ calls[k + 2].op = "add_documents"
                        /\ calls[k + 2].docs = calls[k].docs
                        /\ calls[k + 2].ids = calls[k].ids
                        /\ calls[k + 2].ef = calls[k].ef

\* what a step that ends in a transient rate-limit failure leaves alone
C4_FailureStep ==
    (/\ Len(calls') > Len(calls)
     /\ IsTransientError(calls'[Len(calls) + 1].err))
        => /\ store' = store
           /\ i' = i
           /\ new_chunks' = new_chunks
           /\ provider' = provider
           /\ pc' = "submit"

\* C4 (rate-limit retry): after a transient rate-limit failure the reconciler
\* sleeps RETRY_DELAY and the next submission is of the same batch with the
\* same provider; the failure changes neither the Store nor the batch position,
\* and however many such failures follow one another the run stays in the
\* batch loop on that batch.
C4_RateLimitRetry == []C4_AfterRateLimit /\ [][C4_FailureStep]_vars

\* C4 witness: one batch met two rate-limit failures in a row and was then
\* added.
C4_Witness ==
    \E k \in AddPositions :
        /\ IsTransientError(calls[k].err)
        /\ Len(calls) >= k + 4
        /\ IsTransientError(calls[k + 2].err)
        /\ calls[k + 4].op = "add_documents"
        /\ calls[k + 4].res = "ok"
        /\ calls[k + 4].docs = calls[k].docs
        /\ calls[k].docs # <<>>

\* C5 (unclassified error): a submission that fails with an error that is no
\* RateLimitError is the last call of the run: the exception leaves the run
\* without a retry and without a later submission, and the Store still holds
\* the ids it held at the start and those of the batches added before.
C5_UnclassifiedError ==
    \A k \in AddPositions :
        IsUnclassifiedError(calls[k].err)
            => /\ calls[k].res = "error"
               /\ k = Len(calls)
               /\ pc = "error_raised"
               /\ (snapshot \cup CommittedBefore(k)) \subseteq stored_ids(store)

\* C5 witness: the second batch failed with an error that only mentions the
\* quota, after the first batch had been added.
C5_Witness ==
    /\ pc = "error_raised"
    /\ Cardinality(AddPositions) = 2
    /\ calls[NthOf(AddPositions, 1)].res = "ok"
    /\ calls[Len(calls)].err = [type |-> "APIError", mentions |-> {"insufficient_quota"}]
    /\ "a:0:2" \in stored_ids(store)

\* C6 (fallback unavailable): when a submission fails with a quota error and
\* the forced-local provider cannot be constructed, the failed construction is
\* the last call of the run, which ends by sys.exit(1): no resubmission, no
\* later batch, the provider and the Store handle are the ones of the failed
\* submission and the Store holds what it held at the start and what was added
\* before.
C6_FallbackUnavailable ==
    \A k \in AddPositions :
        (IsQuotaError(calls[k].err) /\ ~backend.local_constructs)
            => /\ calls[k].res = "quota"
               /\ Len(calls) = k + 1
               /\ calls[k + 1].op = "get_embedding_function"
               /\ calls[k + 1].arg = "use_local"
               /\ calls[k + 1].res = "RuntimeError"
               /\ pc = "fatal_exit"
               /\ provider = calls[k].ef
               /\ existing_ids = snapshot
               /\ stored_ids(store) = snapshot \cup CommittedBefore(k)

\* C6 witness: the second batch hit the exhausted quota with the Remote
\* provider, no Local provider could be built and the run has exited.
C6_Witness ==
    /\ pc = "fatal_exit"
    /\ provider = "Remote"
    /\ Cardinality(AddPositions) = 2
    /\ calls[NthOf(AddPositions, 1)].res = "ok"
    /\ calls[Len(calls)].res = "RuntimeError"
    /\ "a:0:2" \in stored_ids(store)

(* ------------------------------------------------------------------ *)
(* Properties settled after the first ten                              *)
(* ------------------------------------------------------------------ *)
\* C11 (determinism of identifier assignment): a second call of
\* calculate_chunk_ids on chunks with the same sources and pages in the same
\* order assigns the same id sequence as the first, whatever the texts are and
\* whatever ids an earlier assignment left on the chunks.
C11_Determinism ==
    pc = "ids_again"
        => /\ calls[1].ids = ids_of(chunks)
           /\ Len(calls[1].ids) = Len(data)

\* C11 witness: four chunks over two pages were assigned ids a second time
\* while carrying the first assignment's ids in reverse order.
C11_Witness ==
    /\ pc = "ids_again"
    /\ calls[1].arg = "reversed"
    /\ Len(chunks) = 4
    /\ chunks[1].page_content # chunks[2].page_content
    /\ ids_of(chunks) = <<"a:0:0", "a:0:1", "a:1:0:0", "a:1:0:1">>
    /\ calls[1].ids = <<"a:0:0", "a:0:1", "a:1:0:0", "a:1:0:1">>

\* calls of this run with the given name
CallsOf(op) == {k \in DOMAIN calls : calls[k].op = op}

\* C12 (nothing to add): when the id of every input chunk is in the set read
\* from the Store (also when there is no chunk), the run ends successfully
\* right after the partition: no add_documents, persist or sleep call, the
\* provider built and the Store opened once, the flag of the process untouched
\* and the Store holding what was read from it.
C12_NothingToAdd ==
    (/\ pc \notin {"main", "config_error"}
     /\ \A k \in DOMAIN chunks : chunks[k].metadata.id \in snapshot)
        => /\ pc = "success"
           /\ CallsOf("add_documents") = {}
           /\ CallsOf("persist") = {}
           /\ CallsOf("sleep") = {}
           /\ Cardinality(CallsOf("get_embedding_function")) = 1
           /\ Cardinality(CallsOf("Chroma")) = 1
           /\ provider = calls[NthOf(CallsOf("Chroma"), 1)].ef
           /\ environ = shell_environ
           /\ existing_ids = snapshot
           /\ stored_ids(store) = snapshot

\* C12 witness: a first run over two chunks whose ids the Store already
\* holds has ended without --reset.
C12_Witness ==
    /\ run = 1
    /\ pc = "success"
    /\ ~WasReset
    /\ ids_of(chunks) = <<"a:0:0", "a:0:1">>
    /\ snapshot = {"a:0:0", "a:0:1"}
    /\ new_chunks = <<>>

\* the state part of C13: a run started with --reset deleted the Store once,
\* as its first call; it read an empty id set and kept every input chunk
C13_ResetState ==
    /\ \A k \in CallsOf("rmtree") : k = 1
    /\ (WasReset /\ Partitioned)
          => /\ snapshot = {}
             /\ new_chunks = chunks
             /\ stored_ids(store) = CommittedBefore(Len(calls) + 1)

\* the step part of C13: a step of a run started without --reset removes no
\* id from the Store
C13_NoResetStep ==
    (calls' = <<>> \/ calls'[1].op # "rmtree") => store \sqsubseteq store'

\* C13 (reset): with --reset the persisted Store is deleted before the Store
\* is opened and before any chunk is submitted, so the id set read by the
\* reconciliation is empty and every input chunk is new; without --reset no
\* step of the run deletes anything from the Store.
C13_Reset == []C13_ResetState /\ [][C13_NoResetStep]_vars

\* C13 witness: a second run, started with --reset on the Store the first run
\* filled, has read an empty id set and is submitting all three chunks again.
C13_Witness ==
    /\ run = 2
    /\ WasReset
    /\ pc = "submit"
    /\ Len(chunks) = 3
    /\ snapshot = {}
    /\ new_chunks = chunks
    /\ i = BATCH_SIZE
    /\ stored_ids(store) = Range(ids_of(batch_at(chunks, 0)))

\* the id list of the add_documents call at position k is parallel to its
\* chunk list
ParallelIds(k) ==
    /\ Len(calls[k].ids) = Len(calls[k].docs)
    /\ \A x \in DOMAIN calls[k].docs : calls[k].ids[x] = calls[k].docs[x].metadata.id

\* no id occurs twice in the id list of the call at position k
DistinctIds(k) ==
    \A x, y \in DOMAIN calls[k].ids : x # y => calls[k].ids[x] # calls[k].ids[y]

\* C14 as stated: every add_documents call passes an id list parallel to its
\* chunk list, and no id occurs twice within one batch.
C14_ParallelDistinct ==
    \A k \in AddPositions : ParallelIds(k) /\ DistinctIds(k)

\* C14 (amended): every add_documents call passes an id list parallel to its
\* chunk list, one id per chunk; when the chunks of each source:page are
\* contiguous in the input, no id occurs twice within one batch.
C14_ParallelIds ==
    \A k \in AddPositions :
        /\ ParallelIds(k)
        /\ calls[k].docs # <<>>
        /\ Contiguous(data) => DistinctIds(k)

\* C14 witness: contiguous input of two pages; the second batch, holding the
\* last chunk of one page and the first of the next, was submitted.
C14_Witness ==
    /\ pc = "submit"
    /\ Contiguous(data)
    /\ ids_of(chunks) = <<"a:0:0", "a:0:1", "a:0:2", "a:1:0", "a:1:1">>
    /\ snapshot = {}
    /\ Cardinality(AddPositions) = 2
    /\ calls[NthOf(AddPositions, 2)].ids = <<"a:0:2", "a:1:0">>
    /\ calls[NthOf(AddPositions, 2)].res = "ok"

\* position k of the list is the first of a run of same-page chunks
StartsRun(list, k) == RunStart(list, k) = k

\* C15 (silent collision on non-contiguous pages): when chunks of one
\* source:page come in separated runs, the first chunk of every such run gets
\* the id source:page:0 and chunks at the same distance from the start of their
\* runs get the same id; calculate_chunk_ids returns an id for every chunk and
\* the run goes on to the partition with these ids.
C15_SilentCollision ==
    pc \notin {"main", "config_error"}
        => /\ Len(chunks) = Len(data)
           /\ pc \in {"submit", "success", "error_raised", "fatal_exit"}
           /\ \A j, k \in DOMAIN data :
                (/\ j < k
                 /\ same_page(data[j], data[k])
                 /\ RunStart(data, j) # RunStart(data, k)
                 /\ j - RunStart(data, j) = k - RunStart(data, k))
                    => /\ chunks[j].metadata.id = chunks[k].metadata.id
                       /\ chunks[j].page_content # chunks[k].page_content
                       /\ StartsRun(data, k)
                             => chunks[k].metadata.id =
                                    page_id_of(data[k].metadata.source,
                                               data[k].metadata.page) \o ":0"

\* C15 witness: page 0, page 1 and page 0 again; both chunks of page 0 got the
\* id a:0:0, the run went on, submitted both and ended with two stored ids for
\* three chunks.
C15_Witness ==
    /\ pc = "success"
    /\ ~Contiguous(data)
    /\ ids_of(chunks) = <<"a:0:0", "a:1:0", "a:0:0">>
    /\ snapshot = {}
    /\ Cardinality(AddPositions) = 2
    /\ calls[NthOf(AddPositions, 2)].ids = <<"a:0:0">>
    /\ stored_ids(store) = {"a:0:0", "a:1:0"}

\* the layer _persist_db reaches first, in the order Store object, client,
\* collection
FirstLayer ==
    IF "db" \in persist_layers THEN "db"
    ELSE IF "client" \in persist_layers THEN "client" ELSE "collection"

\* add_documents calls of this run that returned
OkAdds == {k \in AddPositions : calls[k].res = "ok"}

\* C16 (persist step): every successful add_documents call is followed at once
\* by exactly one persist call, on the first of Store object, client and
\* collection that exposes persist(); a persist call follows nothing else, in
\* particular no failed submission; when no layer exposes persist() no persist
\* call is made and the batch still counts: the loop has advanced by one batch
\* for every successful call and a finished run has submitted every batch.
C16_PersistStep ==
    /\ \A k \in CallsOf("persist") :
          /\ k - 1 \in OkAdds
          /\ calls[k].arg = FirstLayer
          /\ calls[k].arg \in persist_layers
    /\ \A k \in OkAdds :
          IF persist_layers = {}
          THEN k + 1 \notin CallsOf("persist")
          ELSE k + 1 \in CallsOf("persist") /\ k + 2 \notin CallsOf("persist")
    /\ \A k \in AddPositions \ OkAdds : k + 1 \notin CallsOf("persist")
    /\ Partitioned
          => /\ i = BATCH_SIZE * Cardinality(OkAdds)
             /\ pc = "success" => i >= Len(new_chunks)

\* C16 witness: a Store with persist() on its client and its collection; the
\* first submission was rate limited, then both batches were added, each
\* followed by one persist call on the client.
C16_Witness ==
    /\ pc = "success"
    /\ persist_layers = {"client", "collection"}
    /\ Len(new_chunks) = 3
    /\ Cardinality(AddPositions) = 3
    /\ calls[NthOf(AddPositions, 1)].res = "rate_limit"
    /\ Cardinality(OkAdds) = 2
    /\ Cardinality(CallsOf("persist")) = 2
    /\ \A k \in CallsOf("persist") : calls[k].arg = "client"

\* the state part of C17: the n-th successful submission is of the n-th batch
\* and every submission is of the batch that follows the last successful one;
\* the Store holds the ids read at the start and those of the batches
\* committed so far, which are a prefix of the batch sequence
C17_PrefixState ==
    Partitioned
        => /\ \A k \in AddPositions :
                 LET done == Cardinality({j \in OkAdds : j < k})
                 IN /\ calls[k].docs = batch_at(new_chunks, BATCH_SIZE * done)
                    /\ calls[k].docs # <<>>
           /\ i = BATCH_SIZE * Cardinality(OkAdds)
           /\ stored_ids(store) =
                  snapshot \cup Range(ids_of(SubSeq(new_chunks, 1, Min(i, Len(new_chunks)))))

\* the step part of C17: no step of the reconciliation takes an id out of the
\* Store
C17_NoIdLeaves ==
    pc # "main" => stored_ids(store) \subseteq stored_ids(store')

\* C17 (sequential prefix invariant): batches are submitted one at a time in
\* input order, batch k+1 only after batch k succeeded; in every state of a
\* run, also after an abort, a rate-limit wait or a provider switch, the
\* Store's id set is the set read at the start united with the ids of the
\* committed prefix of the batch sequence, and no id leaves the Store during
\* the reconciliation.
C17_SequentialPrefix == []C17_PrefixState /\ [][C17_NoIdLeaves]_vars

\* C17 witness: the Store held a:1:0; the first batch was committed after a
\* provider switch, the second submission aborted the run, and the Store
\* holds a:1:0 and the ids of the first batch only.
C17_Witness ==
    /\ pc = "error_raised"
    /\ snapshot = {"a:1:0"}
    /\ Len(new_chunks) = 4
    /\ Cardinality(AddPositions) = 3
    /\ calls[NthOf(AddPositions, 1)].res = "quota"
    /\ calls[NthOf(AddPositions, 2)].res = "ok"
    /\ calls[NthOf(AddPositions, 3)].res = "error"
    /\ calls[NthOf(AddPositions, 3)].docs = SubSeq(new_chunks, 3, 4)
    /\ stored_ids(store) = {"a:1:0"} \cup Range(ids_of(SubSeq(new_chunks, 1, 2)))
    /\ Cardinality(stored_ids(store)) = 3

\* the last call of the run so far is the rate-limit wait
Waiting == calls # <<>> /\ calls[Len(calls)].op = "sleep"

\* the run ended successfully with every batch committed
AllCommitted ==
    /\ pc = "success"
    /\ i >= Len(new_chunks)
    /\ Range(ids_of(new_chunks)) \subseteq stored_ids(store)
    /\ Cardinality(OkAdds) = (Len(new_chunks) + BATCH_SIZE - 1) \div BATCH_SIZE

\* the run was aborted by an unclassified error or an unavailable fallback
Aborted == pc \in {"error_raised", "fatal_exit"}

\* the step that follows a rate-limit wait is a submission
C18_WaitThenSubmit ==
    Waiting => /\ Len(calls') > Len(calls)
               /\ calls'[Len(calls) + 1].op = "add_documents"

\* C18 (termination under eventual backend recovery): when a submission that
\* can succeed eventually does, every run that entered the batch loop ends,
\* either successfully with all batches committed or aborted by an
\* unclassified error or an unavailable fallback; a rate-limit wait is always
\* followed by another submission.
C18_Termination ==
    /\ (pc = "submit") ~> (AllCommitted \/ Aborted)
    /\ Waiting ~> ~Waiting
    /\ [][C18_WaitThenSubmit]_vars

\* C18 witness: a run of three batches, two of whose submissions were rate
\* limited and waited for, has ended with all batches committed.
C18_Witness ==
    /\ AllCommitted
    /\ Len(new_chunks) = 5
    /\ Cardinality(CallsOf("sleep")) = 2
    /\ Cardinality(OkAdds) = 3
    /\ calls[NthOf(AddPositions, 1)].res = "rate_limit"
    /\ calls[NthOf(AddPositions, 3)].res = "rate_limit"

\* C19 (result of a successful run): when a run reports success, whatever
\* rate-limit retries and provider switches it went through, the Store's id
\* set is the set read at the start united with the ids of all input chunks:
\* every input chunk id is stored and no other id was added.
C19_SuccessResult ==
    pc = "success"
        => /\ stored_ids(store) = snapshot \cup Range(ids_of(chunks))
           /\ \A k \in DOMAIN chunks : chunks[k].metadata.id \in stored_ids(store)
           /\ \A k \in DOMAIN data :
                 chunk_id_of(page_id_of(data[k].metadata.source, data[k].metadata.page),
                             k - RunStart(data, k)) \in stored_ids(store)
           /\ stored_ids(store) \ snapshot \subseteq Range(ids_of(new_chunks))

\* C19 witness: the Store held a:1:0; the run over five chunks was rate
\* limited once, switched to the local provider once and reported success
\* with five ids stored.
C19_Witness ==
    /\ pc = "success"
    /\ snapshot = {"a:1:0"}
    /\ ids_of(chunks) = <<"a:0:0", "a:0:1", "a:0:2", "a:1:0", "a:1:1">>
    /\ \E k \in Failures : calls[k].res = "rate_limit"
    /\ \E k \in Failures : calls[k].res = "quota"
    /\ provider = "Local"
    /\ stored_ids(store) = {"a:0:0", "a:0:1", "a:0:2", "a:1:0", "a:1:1"}

\* the state part of C20: new_chunks is what the set read at the start leaves
\* of the input, and every submission is a full slice of it, whatever
\* existing_ids holds by then
C20_PlanState ==
    Partitioned
        => /\ Len(new_chunks) =
                  Cardinality({k \in DOMAIN chunks : chunks[k].metadata.id \notin snapshot})
           /\ \A k \in AddPositions :
                 LET from == BATCH_SIZE * Cardinality({j \in OkAdds : j < k})
                 IN /\ Len(calls[k].docs) = Min(BATCH_SIZE, Len(new_chunks) - from)
                    /\ \A x \in DOMAIN calls[k].docs :
                          calls[k].docs[x] = new_chunks[from + x]

\* the step part of C20: no step of the batch loop changes new_chunks or the
\* set it was computed from; a step that re-reads existing_ids sets it to the
\* ids the Store holds
C20_PlanStep ==
    pc = "submit"
        => /\ new_chunks' = new_chunks
           /\ snapshot' = snapshot
           /\ existing_ids' # existing_ids => existing_ids' = stored_ids(store)

\* C20 (fixed batch plan): new_chunks and its division into batches are
\* computed once from the id set read at the start of the run; re-reading the
\* set after a provider switch changes existing_ids only, and the current and
\* all later batches are submitted in full even when the refreshed set holds
\* some of their ids.
C20_FixedPlan == []C20_PlanState /\ [][C20_PlanStep]_vars

\* C20 witness: page 0, page 1, page 0 again; the first batch stored a:0:0,
\* the second batch met a quota error, the re-read set held a:0:0, and the
\* second batch, whose only id is a:0:0, was submitted all the same.
C20_Witness ==
    /\ pc = "success"
    /\ snapshot = {}
    /\ existing_ids = {"a:0:0", "a:1:0"}
    /\ Cardinality(AddPositions) = 3
    /\ calls[NthOf(AddPositions, 1)].res = "ok"
    /\ calls[NthOf(AddPositions, 2)].res = "quota"
    /\ calls[NthOf(AddPositions, 3)].res = "ok"
    /\ calls[NthOf(AddPositions, 3)].ids = <<"a:0:0">>
    /\ calls[NthOf(AddPositions, 3)].ef = "Local"
    /\ Len(new_chunks) = 3

====
